---------------------------- MODULE Spec2Model ----------------------------
(***************************************************************************)
(* A model of src/artist_finder.py: expand, grow, trim, paths_subgraph and *)
(* the pipeline grow_and_plot composes from them.                          *)
(*                                                                         *)
(* A graph (networkx.Graph) is a record [nodes, edges]; an edge is the     *)
(* two-element set of its endpoints (undirected, no multi-edges).  The     *)
(* relation source Artist.related() never returns the artist itself, so    *)
(* graphs have no self-loops.                                              *)
(***************************************************************************)
EXTENDS Integers, Naturals, Sequences, FiniteSets, TLC

\* The number of entities (artists) of the universe.
NumEntities == 4
\* The largest seed set handed to grow.
MaxSeeds == 3
\* The largest number of nodes of a base graph handed to grow.
MaxBaseNodes == 2
\* The largest max_len handed to paths_subgraph.
MaxLen == 3
\* How many times in a row trim is called on its own output.
MaxTrims == 2
\* The largest number of related-artist links the relation source reports in a run.
MaxLinks == 3

Entity == 1..NumEntities

VARIABLES
    pc,           \* where the caller is: which call comes next, or how the last ended
    err,          \* the exception that ended the call, "none" when there is none
    op,           \* the operation that produced graph
    seeds,        \* the seeds argument
    keepers,      \* trim's keepers argument
    max_len,      \* paths_subgraph's max_len argument: None or Some(n)
    given,        \* the graph the caller starts from: the first call's graph argument
    input,        \* the graph argument of the latest call of grow, trim or
                  \* paths_subgraph, as it was when the call was made
    arg,          \* what the graph object handed to that call holds now
    expand_call,  \* the graph object grow handed to its latest call of expand:
                  \* what it held before the call, and after
    graph,        \* the local variable graph of the running call, then its result
    new_artists,  \* grow's local variable new_artists
    rounds,       \* how many times grow's loop body has run
    rel,          \* what Artist.related() has answered, per artist asked so far
    queries,      \* how many times Artist.related() was called, per artist
    paths,        \* paths_subgraph's local variable paths (the path table)
    trims         \* how many calls of trim have returned

vars == <<pc, err, op, seeds, keepers, max_len, given, input, arg, expand_call,
          graph, new_artists, rounds, rel, queries, paths, trims>>

--------------------------------------------------------------------------
\* networkx.Graph

Edge(a, b) == {a, b}

\* nx.Graph()
EmptyGraph == [nodes |-> {}, edges |-> {}]

\* Graph.add_nodes_from
AddNodes(G, S) == [nodes |-> G.nodes \cup S, edges |-> G.edges]

\* Graph.add_edges_from / Graph.add_edge: the endpoints become nodes
AddEdges(G, E) == [nodes |-> G.nodes \cup UNION E, edges |-> G.edges \cup E]

\* Graph.remove_nodes_from: the nodes go, and every edge at one of them
RemoveNodes(G, S) ==
    [nodes |-> G.nodes \ S, edges |-> {e \in G.edges : e \cap S = {}}]

Neighbors(G, x) == {y \in G.nodes : Edge(x, y) \in G.edges}

\* Graph.degree(x)
Degree(G, x) == Cardinality(Neighbors(G, x))

\* The nodes reachable from the nodes of S
RECURSIVE Reach(_, _)
Reach(G, S) ==
    LET T == S \cup UNION {Neighbors(G, x) : x \in S}
    IN  IF T = S THEN S ELSE Reach(G, T)

\* nx.has_path(graph, source, target)
HasPath(G, s, t) == t \in Reach(G, {s})

\* itertools.combinations(seeds, 2): each 2-combination once, as a tuple
Combinations2(S) == {p \in S \X S : p[1] < p[2]}

\* Every graph over the nodes of S
AllEdges(S) == {e \in SUBSET S : Cardinality(e) = 2}
Graphs(S) == UNION {[nodes : {N}, edges : SUBSET AllEdges(N)] : N \in SUBSET S}

--------------------------------------------------------------------------
\* graph = graph.copy(): the local variable graph names a new object, not the
\* object the caller handed in

\* A slip: the copy left out, the local variable names the caller's object
NoCopy == FALSE

\* expand, line 29
ExpandCopies == TRUE

\* grow, line 59
GrowCopies == TRUE

\* trim, line 94
TrimCopies == TRUE

\* paths_subgraph, line 131
PathsSubgraphCopies == TRUE

\* What the object handed in holds once the call has changed its local graph
\* from before to after
Held(copied, before, after) == IF copied THEN before ELSE after

NoExpandCall == [before |-> EmptyGraph, after |-> EmptyGraph]

--------------------------------------------------------------------------
\* expand (lines 10-37); related gives each artist's related artists

\* A slip in lines 26-29: the graph argument dropped for an empty graph
ExpandFromEmpty(artists, G, related) ==
    AddEdges(AddNodes(EmptyGraph, artists),
             UNION {{Edge(a, r) : r \in related[a]} : a \in artists})

Expand(artists, G, related) ==
    AddEdges(AddNodes(G, artists),
             UNION {{Edge(a, r) : r \in related[a]} : a \in artists})

\* A slip in the loop condition: any() for all()
SomeSeedsConnected(G, S) == \E p \in Combinations2(S) : HasPath(G, p[1], p[2])

\* grow's loop condition (lines 65-66), negated: every pair of seeds has a path
SeedsConnected(G, S) == \A p \in Combinations2(S) : HasPath(G, p[1], p[2])

\* A slip in line 68: the nodes of the old graph not taken away
AllNodes(new_graph, old_graph) == new_graph.nodes

\* A slip in line 68: the seeds taken away, for the nodes of the old graph
AllButSeeds(new_graph, old_graph) == new_graph.nodes \ seeds

\* new_artists after a round (line 68)
NewArtists(new_graph, old_graph) == new_graph.nodes \ old_graph.nodes

\* A slip: the stall test left out
NeverStalled(fresh) == FALSE

\* grow's stall test (line 70)
Stalled(fresh) == fresh = {}

\* A slip in the finishing pass: the test of line 75 left out
AllRelatedEdges(G, artists, related) ==
    UNION {{Edge(a, r) : r \in related[a]} : a \in artists}

\* The edges of grow's finishing pass (lines 73-76)
Interconnections(G, artists, related) ==
    UNION {{Edge(a, r) : r \in {x \in related[a] : x \in G.nodes}} :
             a \in artists}

\* The related-artist links reported so far
Links(r) == UNION {{<<a, x>> : x \in r[a]} : a \in Entity}

\* What Artist.related() may answer for the artists of S when at most left
\* more links are reported: never the artist itself, and the same answer
\* every time an artist is asked
RECURSIVE AnswersWithin(_, _)
AnswersWithin(S, left) ==
    IF S = {} THEN {<< >>}
    ELSE LET a == CHOOSE x \in S : TRUE
             again == queries[a] > 0
             opts == IF again THEN {rel[a]}
                     ELSE {X \in SUBSET (Entity \ {a}) : Cardinality(X) <= left}
         IN  UNION {{f @@ (a :> X) :
                       f \in AnswersWithin(S \ {a},
                                IF again THEN left ELSE left - Cardinality(X))} :
                      X \in opts}

\* The answers for the artists of S, with at most MaxLinks links reported
\* over the whole run
Answers(S) == AnswersWithin(S, MaxLinks - Cardinality(Links(rel)))

Asked(S, f) ==
    /\ rel' = [a \in Entity |-> IF a \in S THEN f[a] ELSE rel[a]]
    /\ queries' = [a \in Entity |-> IF a \in S THEN queries[a] + 1 ELSE queries[a]]

--------------------------------------------------------------------------
\* trim (lines 81-105)

\* A slip in to_remove: the keepers not looked at
ToRemoveAnyLeaf(G, K) == {x \in G.nodes : Degree(G, x) < 2}

\* A slip in line 99: degree(x) <= 2 for degree(x) < 2
ToRemoveThroughNodes(G, K) == {x \in G.nodes : Degree(G, x) <= 2 /\ x \notin K}

\* to_remove (lines 98-99)
ToRemove(G, K) == {x \in G.nodes : Degree(G, x) < 2 /\ x \notin K}

\* A slip in trim: one pass, no loop
TrimOnePass(G, K) == RemoveNodes(G, ToRemove(G, K))

\* The loop of lines 97-103, on the copy of line 94
RECURSIVE Trim(_, _)
Trim(G, K) ==
    IF ToRemove(G, K) # {} THEN Trim(RemoveNodes(G, ToRemove(G, K)), K) ELSE G

--------------------------------------------------------------------------
\* paths_subgraph (lines 108-156)

None == << >>
Some(n) == <<n>>

Range(p) == {p[i] : i \in DOMAIN p}

\* The simple paths of G that start with the path p and end at t
RECURSIVE PathsFrom(_, _, _)
PathsFrom(G, p, t) ==
    IF p[Len(p)] = t THEN {p}
    ELSE UNION {PathsFrom(G, Append(p, n), t) :
                   n \in Neighbors(G, p[Len(p)]) \ Range(p)}

SimplePaths(G, s, t) == PathsFrom(G, <<s>>, t)

\* A set of paths as a list, shortest first
RECURSIVE ByLength(_)
ByLength(S) ==
    IF S = {} THEN << >>
    ELSE LET p == CHOOSE q \in S : \A r \in S : Len(q) <= Len(r)
         IN  <<p>> \o ByLength(S \ {p})

\* What nx.shortest_simple_paths(graph, s, t) yields (line 138): every simple
\* path from s to t, in order of non-decreasing length
ShortestSimplePaths(G, s, t) == ByLength(SimplePaths(G, s, t))

\* nx.shortest_simple_paths raises NetworkXNoPath when t cannot be reached
\* from s (line 138: the first next() of the generator)
RaisesNoPath(G, s, t) == ~HasPath(G, s, t)

\* A slip in line 143: < for <=
RECURSIVE CollectStrict(_, _, _, _)
CollectStrict(gen, i, pair_max_len, acc) ==
    IF i > Len(gen) THEN acc
    ELSE IF pair_max_len = None
           THEN CollectStrict(gen, i + 1, Some(Len(gen[i])), Append(acc, gen[i]))
    ELSE IF Len(gen[i]) < pair_max_len[1]
           THEN CollectStrict(gen, i + 1, pair_max_len, Append(acc, gen[i]))
    ELSE acc

\* The loop of lines 138-146 from the i-th path the generator yields, with
\* the local pair_max_len and the list paths[pair] collected so far
RECURSIVE Collect(_, _, _, _)
Collect(gen, i, pair_max_len, acc) ==
    IF i > Len(gen) THEN acc
    ELSE IF pair_max_len = None
           THEN Collect(gen, i + 1, Some(Len(gen[i])), Append(acc, gen[i]))
    ELSE IF Len(gen[i]) <= pair_max_len[1]
           THEN Collect(gen, i + 1, pair_max_len, Append(acc, gen[i]))
    ELSE acc

\* A slip in line 137: pair_max_len starts as None whatever max_len is
PairPathsShortestOnly(G, pair, ml) ==
    Collect(ShortestSimplePaths(G, pair[1], pair[2]), 1, None, << >>)

\* paths[pair] after the pair's turn of the loop of line 135 (lines 136-146)
PairPaths(G, pair, ml) ==
    Collect(ShortestSimplePaths(G, pair[1], pair[2]), 1, ml, << >>)

\* The pair combinations(seeds, 2) yields first
FirstPair(S) ==
    CHOOSE pair \in Combinations2(S) :
        \A q \in Combinations2(S) :
            pair[1] < q[1] \/ (pair[1] = q[1] /\ pair[2] <= q[2])

\* A slip in line 137: the cutoff the first pair's first path fixed is kept
\* for the pairs after it
PathTableSharedCutoff(G, S, ml) ==
    [pair \in Combinations2(S) |->
        IF ml # None \/ pair = FirstPair(S) THEN PairPaths(G, pair, ml)
        ELSE PairPaths(G, pair,
                 Some(Len(PairPaths(G, FirstPair(S), ml)[1])))]

\* The path table (lines 133-146)
PathTable(G, S, ml) == [pair \in Combinations2(S) |-> PairPaths(G, pair, ml)]

\* The nodes of the collected paths (lines 148-152)
PathNodes(table) ==
    UNION {UNION {Range(table[pair][i]) : i \in DOMAIN table[pair]} :
             pair \in DOMAIN table}

\* A slip in line 154: only the edges the collected paths run along are kept
ReducedToPathEdges(G, table) ==
    [nodes |-> G.nodes \cap PathNodes(table),
     edges |-> UNION {UNION {{Edge(table[pair][i][j], table[pair][i][j + 1]) :
                                j \in 1..(Len(table[pair][i]) - 1)} :
                              i \in DOMAIN table[pair]} :
                       pair \in DOMAIN table}]

\* The graph paths_subgraph returns (line 154)
Reduced(G, table) == RemoveNodes(G, G.nodes \ PathNodes(table))

--------------------------------------------------------------------------
\* Seed sets: entities are opaque, so the seeds are named 1..k
SeedSets == {1..k : k \in 1..MaxSeeds}

BaseGraphs == {G \in Graphs(Entity) : Cardinality(G.nodes) <= MaxBaseNodes}

\* grow(seeds, graph) is called: lines 54-63
Init ==
    /\ seeds \in SeedSets
    /\ given \in BaseGraphs
    /\ input = given
    /\ graph = AddNodes(input, seeds)
    /\ arg = Held(GrowCopies, given, AddNodes(given, seeds))
    /\ expand_call = NoExpandCall
    /\ new_artists = seeds
    /\ rounds = 0
    /\ rel = [a \in Entity |-> {}]
    /\ queries = [a \in Entity |-> 0]
    /\ keepers = {}
    /\ max_len = None
    /\ paths = << >>
    /\ trims = 0
    /\ op = "grow"
    /\ pc = "grow"
    /\ err = "none"

\* grow's local graph is the object grow was handed: line 59 made no copy,
\* and no copy of expand's has taken its place since (line 69)
Aliased == ~GrowCopies /\ (rounds = 0 \/ ~ExpandCopies)

\* One run of grow's loop body: lines 65-71
GrowRound ==
    /\ pc = "grow"
    /\ ~SeedsConnected(graph, seeds)
    /\ \E related \in Answers(new_artists) :
         LET new_graph == Expand(new_artists, graph, related)
             old_graph == Held(ExpandCopies, graph, new_graph)
             fresh == NewArtists(new_graph, old_graph)
         IN  /\ Asked(new_artists, related)
             /\ expand_call' = [before |-> graph, after |-> old_graph]
             /\ arg' = IF Aliased THEN old_graph ELSE arg
             /\ graph' = new_graph
             /\ new_artists' = fresh
             /\ rounds' = rounds + 1
             /\ IF Stalled(fresh)
                  THEN pc' = "raised" /\ err' = "NoNewArtists"
                  ELSE pc' = "grow" /\ err' = err
    /\ UNCHANGED <<op, seeds, keepers, max_len, given, input, paths, trims>>

\* grow's loop ends, the finishing pass runs and grow returns: lines 65, 73-78
GrowFinish ==
    /\ pc = "grow"
    /\ SeedsConnected(graph, seeds)
    /\ \E related \in Answers(new_artists) :
         /\ Asked(new_artists, related)
         /\ graph' = AddEdges(graph, Interconnections(graph, new_artists, related))
    /\ arg' = IF Aliased THEN graph' ELSE arg
    /\ pc' = "grown"
    /\ UNCHANGED <<err, op, seeds, keepers, max_len, given, input, expand_call,
                   new_artists, rounds, paths, trims>>

\* trim(graph, keepers=K) is called on the caller's graph and returns
DoTrim(K) ==
    /\ input' = graph
    /\ arg' = Held(TrimCopies, graph, Trim(graph, K))
    /\ keepers' = K
    /\ graph' = Trim(graph, K)
    /\ trims' = trims + 1
    /\ op' = "trim"
    /\ UNCHANGED <<err, seeds, max_len, given, expand_call, new_artists, rounds, rel,
                   queries, paths>>

\* paths_subgraph(graph, seeds, max_len=ml) is called on the caller's graph;
\* it returns, or the exception of nx.shortest_simple_paths ends it
DoPathsSubgraph(ml) ==
    /\ input' = graph
    /\ max_len' = ml
    /\ op' = "paths_subgraph"
    /\ IF \E pair \in Combinations2(seeds) : RaisesNoPath(graph, pair[1], pair[2])
         THEN /\ pc' = "raised"
              /\ err' = "NetworkXNoPath"
              /\ arg' = graph
              /\ UNCHANGED <<graph, paths>>
         ELSE LET table == PathTable(graph, seeds, ml)
              IN  /\ pc' = "done"
                  /\ arg' = Held(PathsSubgraphCopies, graph, Reduced(graph, table))
                  /\ err' = err
                  /\ paths' = table
                  /\ graph' = Reduced(graph, table)
    /\ UNCHANGED <<seeds, keepers, given, expand_call, new_artists, rounds, rel,
                   queries, trims>>

\* A slip in line 293: the keepers argument left out
PipelineTrimNoKeepers ==
    /\ pc = "grown"
    /\ DoTrim({})
    /\ pc' = "trimmed"

\* grow_and_plot, line 293
PipelineTrim ==
    /\ pc = "grown"
    /\ DoTrim(seeds)
    /\ pc' = "trimmed"

\* grow_and_plot, line 294
PipelinePaths ==
    /\ pc = "trimmed"
    /\ DoPathsSubgraph(None)

Next == GrowRound \/ GrowFinish \/ PipelineTrim \/ PipelinePaths

Spec == Init /\ [][Next]_vars

\* grow alone. Its loop is sequential code: while a round or the finishing
\* pass can run, one does (Artist.related() always answers)
NextGrow == GrowRound \/ GrowFinish

SpecGrow == Init /\ [][NextGrow]_vars /\ WF_vars(NextGrow)

--------------------------------------------------------------------------
\* trim and paths_subgraph called on any graph

SeedSets0 == {1..k : k \in 0..MaxSeeds}

MaxLens == {None} \cup {Some(n) : n \in 1..MaxLen}

InitOps ==
    /\ seeds \in SeedSets0
    /\ keepers = seeds
    /\ given \in Graphs(Entity)
    /\ input = given
    /\ graph = input
    /\ arg = given
    /\ expand_call = NoExpandCall
    /\ new_artists = {}
    /\ rounds = 0
    /\ rel = [a \in Entity |-> {}]
    /\ queries = [a \in Entity |-> 0]
    /\ max_len = None
    /\ paths = << >>
    /\ trims = 0
    /\ op = "none"
    /\ pc = "ready"
    /\ err = "none"

CallTrim ==
    /\ pc = "ready"
    /\ trims < MaxTrims
    /\ DoTrim(keepers)
    /\ pc' = pc

\* seeds: "An iterable containing nodes in the graph argument" (line 115)
CallPathsSubgraph ==
    /\ pc = "ready"
    /\ seeds \subseteq graph.nodes
    /\ \E ml \in MaxLens : DoPathsSubgraph(ml)

NextOps == CallTrim \/ CallPathsSubgraph

SpecOps == InitOps /\ [][NextOps]_vars

--------------------------------------------------------------------------
\* expand called on a graph; new_artists holds its artists argument

InitExpand ==
    /\ seeds = {}
    /\ keepers = {}
    /\ given \in BaseGraphs
    /\ input = given
    /\ graph = input
    /\ arg = given
    /\ expand_call = NoExpandCall
    /\ new_artists \in SeedSets0
    /\ rounds = 0
    /\ rel = [a \in Entity |-> {}]
    /\ queries = [a \in Entity |-> 0]
    /\ max_len = None
    /\ paths = << >>
    /\ trims = 0
    /\ op = "none"
    /\ pc = "ready"
    /\ err = "none"

CallExpand ==
    /\ pc = "ready"
    /\ \E related \in Answers(new_artists) :
         LET new_graph == Expand(new_artists, graph, related)
         IN  /\ Asked(new_artists, related)
             /\ graph' = new_graph
             /\ arg' = Held(ExpandCopies, graph, new_graph)
    /\ input' = graph
    /\ op' = "expand"
    /\ pc' = "expanded"
    /\ UNCHANGED <<err, seeds, keepers, max_len, given, expand_call,
                   new_artists, rounds, paths, trims>>

NextExpand == CallExpand

SpecExpand == InitExpand /\ [][NextExpand]_vars

--------------------------------------------------------------------------
\* Properties of grow, checked under Spec

\* A path joins s and t in G, said directly: both are nodes, and every set
\* of nodes that holds s and not t has an edge leaving it
Joined(G, s, t) ==
    /\ {s, t} \subseteq G.nodes
    /\ \A C \in SUBSET G.nodes :
          (s \in C /\ t \notin C) =>
              \E e \in G.edges : e \cap C # {} /\ e \ C # {}

\* The graph of the related-artist links reported so far
LinkGraph == [nodes |-> Entity, edges |-> {Edge(l[1], l[2]) : l \in Links(rel)}]

\* The seeds are linked by a chain of related entities
SeedsLinked == \A s, t \in seeds : Joined(LinkGraph, s, t)

\* grow(seeds) was called without a base graph
NoBaseGraph == given = EmptyGraph

GrowRaised == op = "grow" /\ pc = "raised" /\ err = "NoNewArtists"
GrowReturned == op = "grow" /\ pc = "grown"

\* C1: whenever the seeds are linked by a chain of related entities,
\* grow(seeds) does not end with the stall error.  (Violated: the stall test
\* of line 70 is made after a round that connected the seeds without
\* discovering a new artist.)
C1_LinkedSeedsNeverStall == (NoBaseGraph /\ SeedsLinked) => ~GrowRaised

\* C2: when grow returns, every seed is a node of the returned graph and
\* every pair of seeds is joined by a path in it, whatever the base graph,
\* the seeds and the relation source.
C2_ReturnedSeedsConnected ==
    GrowReturned =>
        /\ seeds \subseteq graph.nodes
        /\ \A s, t \in seeds : Joined(graph, s, t)

\* C2's case: grow was given a base graph and returns after two rounds of
\* its loop
C2_Witness ==
    GrowReturned /\ rounds = 2 /\ Cardinality(seeds) >= 2 /\ given.nodes # {}

\* The relation source has answered the empty set to every call so far
AllAnswersEmpty == \A a \in Entity : rel[a] = {}

\* C3: with two seeds that the base graph does not join and a relation
\* source that always answers the empty set, grow neither returns nor goes
\* on: its first round ends with the stall error.  (grow({A, B}) without a
\* base graph is the case given = EmptyGraph.)
C3_EmptySourceStalls ==
    ( /\ op = "grow"
      /\ Cardinality(seeds) = 2
      /\ \E s, t \in seeds : ~Joined(AddNodes(given, seeds), s, t)
      /\ AllAnswersEmpty )
    => \/ rounds = 0 /\ pc = "grow" /\ ~ENABLED GrowFinish
       \/ rounds = 1 /\ GrowRaised

\* C3's case: grow({A, B}) without a base graph has ended with the stall
\* error, every answer having been empty
C3_Witness ==
    /\ NoBaseGraph /\ Cardinality(seeds) = 2 /\ AllAnswersEmpty
    /\ \A a \in seeds : queries[a] = 1
    /\ GrowRaised /\ rounds = 1

\* The end-to-end scenario: a = 1, b = 2, x = 3, with a -> {x}, x -> {b},
\* b -> {}, as far as the relation source has been asked
Scenario ==
    /\ seeds = {1, 2} /\ NoBaseGraph
    /\ queries[1] > 0 /\ rel[1] = {3}
    /\ queries[2] > 0 /\ rel[2] = {}
    /\ queries[3] > 0 => rel[3] = {2}
    /\ queries[4] = 0

ScenarioGraph == [nodes |-> {1, 2, 3}, edges |-> {{1, 3}, {3, 2}}]

\* C4: in the end-to-end scenario grow does not raise; it returns the graph
\* with nodes {a, x, b} and edges (a, x), (x, b) after one round, trim with
\* keepers {a, b} leaves it unchanged, and paths_subgraph returns the table
\* {(a, b): [[a, x, b]]} and the same graph.  (Violated: the first round
\* adds only (a, x), and the second, which adds (x, b), ends with the stall
\* error.)
C4_EndToEnd ==
    Scenario =>
        /\ err = "none"
        /\ pc = "grown" => rounds = 1 /\ graph = ScenarioGraph
        /\ pc = "trimmed" => graph = ScenarioGraph
        /\ pc = "done" =>
              /\ graph = ScenarioGraph
              /\ paths = [pair \in {<<1, 2>>} |-> << <<1, 3, 2>> >>]

\* C10's case and its statement, under Spec: a single seed, no base graph
SingleSeed == Cardinality(seeds) = 1 /\ NoBaseGraph

\* C10: grow({a}) without a base graph runs its loop body zero times and
\* returns the graph whose only node is a (with no edge); paths_subgraph with
\* the seeds {a} then returns an empty path table and a graph with no node.
C10_SingleSeedBoundary ==
    SingleSeed =>
        /\ rounds = 0
        /\ pc # "raised"
        /\ pc \in {"grown", "trimmed"} => graph = [nodes |-> seeds, edges |-> {}]
        /\ pc = "done" => paths = << >> /\ graph = EmptyGraph

\* C10's case: the whole pipeline has run on one seed that has related artists
C10_Witness ==
    /\ SingleSeed /\ pc = "done" /\ op = "paths_subgraph"
    /\ \E a \in seeds : queries[a] = 1 /\ rel[a] # {}
    /\ input = [nodes |-> seeds, edges |-> {}]

--------------------------------------------------------------------------
\* Properties of trim and paths_subgraph, checked under SpecOps

TrimReturned == op = "trim"

\* C5: trim(graph, keepers=K) removes no node of K, whatever its degree, and
\* every node of degree < 2 of the returned graph is in K.
C5_TrimKeepsKeepers ==
    TrimReturned =>
        /\ (keepers \cap input.nodes) \subseteq graph.nodes
        /\ \A x \in graph.nodes :
              Cardinality({e \in graph.edges : x \in e}) < 2 => x \in keepers

\* C5's case: trim removed nodes and kept a keeper of degree 0 and one of
\* degree 1
C5_Witness ==
    /\ TrimReturned /\ graph # input
    /\ \E k \in keepers \cap graph.nodes : Degree(graph, k) = 0
    /\ \E k \in keepers \cap graph.nodes : Degree(graph, k) = 1

\* C6: trim run again on its own output, with the same keepers, returns a
\* graph with the same nodes and edges.
C6_TrimIdempotent == (TrimReturned /\ trims >= 2) => graph = input

\* C6's case: the first trim took several passes (a leaf, then the neighbour
\* it left a leaf) and left nodes; the second has returned
C6_Witness ==
    /\ TrimReturned /\ trims = 2 /\ graph.nodes # {}
    /\ \E x \in given.nodes \ graph.nodes : Degree(given, x) >= 2

PathsReturned == op = "paths_subgraph" /\ pc = "done"

\* The simple paths from s to t in G, said directly: s, then any distinct
\* nodes other than s and t in any order, then t, consecutive nodes adjacent
AllSimplePaths(G, s, t) ==
    LET Orders(M) == {f \in [1..Cardinality(M) -> M] :
                         \A i, j \in DOMAIN f : i # j => f[i] # f[j]}
        Lists == UNION {{<<s>> \o mid \o <<t>> : mid \in Orders(M)} :
                          M \in SUBSET (G.nodes \ {s, t})}
    IN  {p \in Lists :
            \A i \in 1..(Len(p) - 1) : Edge(p[i], p[i + 1]) \in G.edges}

NoRepeats(list) == Cardinality(Range(list)) = Len(list)

\* C7: with max_len omitted, each pair's entry of the path table holds
\* exactly the simple paths between the pair of minimal length (len(path),
\* the number of nodes): every one of them, once, and no longer path.
C7_DefaultCollectsShortest ==
    (PathsReturned /\ max_len = None) =>
        \A pair \in Combinations2(seeds) :
            LET all == AllSimplePaths(input, pair[1], pair[2])
            IN  /\ Range(paths[pair]) =
                      {p \in all : \A q \in all : Len(p) <= Len(q)}
                /\ NoRepeats(paths[pair])

\* C7's case: two disjoint paths of three nodes between a pair, no shorter
\* one, and a longer one that is left out
C7_Witness ==
    /\ PathsReturned /\ max_len = None
    /\ \E pair \in Combinations2(seeds) :
          /\ Len(paths[pair]) = 2
          /\ Len(paths[pair][1]) = 3 /\ Len(paths[pair][2]) = 3
          /\ \E q \in AllSimplePaths(input, pair[1], pair[2]) : Len(q) = 4

\* C8: with max_len = n, each pair's entry of the path table holds exactly
\* the simple paths between the pair with len(path) <= n, and the reduced
\* graph has no node but those of the collected paths.
C8_BoundedCollectsUpToMaxLen ==
    (PathsReturned /\ max_len # None) =>
        /\ \A pair \in Combinations2(seeds) :
              /\ Range(paths[pair]) =
                    {p \in AllSimplePaths(input, pair[1], pair[2]) :
                        Len(p) <= max_len[1]}
              /\ NoRepeats(paths[pair])
        /\ graph.nodes =
              UNION {UNION {Range(p) :
                              p \in {q \in AllSimplePaths(input, pair[1], pair[2]) :
                                        Len(q) <= max_len[1]}} :
                       pair \in Combinations2(seeds)}

\* C8's case: max_len = 2, a pair joined only by a path of three nodes: its
\* entry is empty and the path's middle node is not in the reduced graph,
\* while another pair's path is kept
C8_Witness ==
    /\ PathsReturned /\ max_len = Some(2)
    /\ \E pair \in Combinations2(seeds) :
          /\ paths[pair] = << >>
          /\ \E p \in AllSimplePaths(input, pair[1], pair[2]) :
                Len(p) = 3 /\ p[2] \notin graph.nodes
          /\ \A p \in AllSimplePaths(input, pair[1], pair[2]) : Len(p) = 3
    /\ graph.nodes # {}

\* A pair of seeds, both nodes of the graph, that no path joins
SomePairUnjoined ==
    \E pair \in Combinations2(seeds) :
        /\ {pair[1], pair[2]} \subseteq input.nodes
        /\ ~Joined(input, pair[1], pair[2])

\* C9: when no path joins a pair of seeds that are nodes of the graph,
\* paths_subgraph returns without an error and the pair's entry of the path
\* table is the empty list.  (Violated: nx.shortest_simple_paths raises
\* NetworkXNoPath for such a pair, and line 138 does not catch it.)
C9_UnjoinedPairGivesEmptyEntry ==
    (op = "paths_subgraph" /\ SomePairUnjoined) =>
        /\ pc = "done" /\ err = "none"
        /\ \A pair \in Combinations2(seeds) :
              ~Joined(input, pair[1], pair[2]) => paths[pair] = << >>

--------------------------------------------------------------------------
\* Properties of the calls' effects on their arguments, checked under Spec

\* C11: no operation changes the graph it is handed: after a call of grow,
\* trim or paths_subgraph, returned or raised, the object handed in holds
\* the nodes and edges it held when the call was made, and so does the
\* object grow hands to expand.
C11_ArgumentsUnchanged ==
    /\ arg = input
    /\ expand_call.after = expand_call.before

\* C11's case: expand has added to its copy, and trim and paths_subgraph
\* have each removed nodes from theirs
C11_Witness ==
    /\ pc = "done" /\ rounds >= 1 /\ graph # input
    /\ graph.nodes # {} /\ given.nodes # {}
    /\ expand_call.before.nodes # input.nodes

--------------------------------------------------------------------------
\* Properties of expand, checked under SpecExpand

ExpandReturned == op = "expand" /\ pc = "expanded"

\* Every related artist of every artist of the batch is a node of the graph
\* handed in, joined to that artist by an edge
AllRelatedPresent ==
    \A e \in new_artists : \A r \in rel[e] :
        r \in input.nodes /\ Edge(e, r) \in input.edges

\* C12: when every related artist of every artist of the batch is already a
\* node of the graph, with the edge to that artist present, expand returns a
\* graph with the same edges, and with the graph's nodes and the batch as
\* its nodes.
C12_ExpandAddsNothingKnown ==
    (ExpandReturned /\ AllRelatedPresent) =>
        /\ graph.edges = input.edges
        /\ graph.nodes = input.nodes \cup new_artists

\* C12's case: a batch with related artists, all of them known, and an artist
\* of the batch that is new to the graph
C12_Witness ==
    /\ ExpandReturned /\ AllRelatedPresent
    /\ \E e \in new_artists : rel[e] # {}
    /\ \E e \in new_artists : e \notin input.nodes
    /\ input.edges # {}

--------------------------------------------------------------------------
\* Properties of paths_subgraph's result, checked under SpecOps

\* The nodes on the paths of the table paths_subgraph returned
OnCollectedPath ==
    {x \in Entity : \E pair \in DOMAIN paths : \E i \in DOMAIN paths[pair] :
                      \E j \in DOMAIN paths[pair][i] : paths[pair][i][j] = x}

\* C13: the graph paths_subgraph returns is the subgraph of the graph handed
\* in that the nodes of the collected paths induce: those nodes, and every
\* edge of the graph handed in between two of them, nothing else; the path
\* table has one key for every 2-combination of the seeds.
C13_InducedOnCollectedPaths ==
    PathsReturned =>
        /\ graph.nodes = OnCollectedPath
        /\ graph.edges = {e \in input.edges : e \subseteq OnCollectedPath}
        /\ \A key \in DOMAIN paths :
               key[1] \in seeds /\ key[2] \in seeds /\ key[1] # key[2]
        /\ \A s, t \in seeds :
               s # t => (<<s, t>> \in DOMAIN paths) # (<<t, s>> \in DOMAIN paths)

\* C13's case: paths are collected for several pairs of seeds, and nodes off
\* those paths go, with their edges
C13_Witness ==
    /\ PathsReturned
    /\ Cardinality(seeds) >= 3
    /\ \E pair \in DOMAIN paths : Len(paths[pair]) >= 2
    /\ graph.nodes # input.nodes
    /\ graph.edges # input.edges

--------------------------------------------------------------------------
\* Properties of grow_and_plot's pipeline, checked under Spec

\* plot's test of its seeds argument (lines 201-204) finds every seed
PlotFindsSeeds == seeds \subseteq graph.nodes

\* C14: with two seeds or more, once grow has returned, trim with the seeds
\* as keepers and paths_subgraph return too, and the graph handed to plot
\* holds every seed and joins every two of them.
C14_PipelineKeepsSeedsJoined ==
    Cardinality(seeds) >= 2 =>
        /\ pc = "raised" => op = "grow"
        /\ pc = "done" =>
               /\ PlotFindsSeeds
               /\ \A s, t \in seeds : Joined(graph, s, t)

\* C14's case: several seeds, and both trim and paths_subgraph had nodes to
\* remove
C14_Witness ==
    /\ pc = "done"
    /\ Cardinality(seeds) >= 2
    /\ graph.nodes # input.nodes
    /\ \E x \in given.nodes : x \notin input.nodes
    /\ PlotFindsSeeds

--------------------------------------------------------------------------
\* Properties of grow's rounds, checked under Spec

\* C15: grow raises "No new artists found." only while the seeds are still
\* disconnected: when it is raised, after a round that found no new node,
\* some two seeds have no path between them in grow's graph.
C15_StallOnlyWhenDisconnected ==
    GrowRaised => \E s, t \in seeds : ~Joined(graph, s, t)

\* grow has ended: it returned or it raised
GrowEnded == GrowReturned \/ GrowRaised

\* The latest round left grow's graph with a node it did not have before
RoundAddedNode ==
    /\ expand_call.before.nodes \subseteq graph.nodes
    /\ graph.nodes # expand_call.before.nodes

\* C16: every call of grow ends. A round adds a node the graph did not have
\* or ends the call with "No new artists found.", so there are never more
\* rounds than entities; and the call ends with that error or with every
\* two seeds joined.
C16_GrowTerminates ==
    /\ [](rounds >= 1 => (RoundAddedNode \/ GrowRaised))
    /\ [](rounds <= NumEntities)
    /\ [](GrowEnded => (GrowRaised \/ \A s, t \in seeds : Joined(graph, s, t)))
    /\ <>GrowEnded

\* C16's case: grow returned after two rounds, each of which added a node
C16_Witness ==
    /\ GrowReturned
    /\ rounds >= 2
    /\ Cardinality(graph.nodes) >= Cardinality(input.nodes \cup seeds) + 2

--------------------------------------------------------------------------
\* Properties of grow's finishing pass, checked under SpecGrow

\* The step from the end of grow's loop to grow's return
FinishingPass == pc = "grow" /\ pc' = "grown"

\* The nodes the final round added, or the seeds when no round ran
LastFrontier ==
    IF rounds = 0 THEN seeds ELSE graph.nodes \ expand_call.before.nodes

\* C17: after the loop, the finishing pass adds, for every node of the last
\* frontier, an edge to each of its related artists that is a node of the
\* graph, and nothing else: no node, and no edge without an end in the last
\* frontier.
C17_FinishingPassAddsInterconnections ==
    [][FinishingPass =>
         /\ new_artists = LastFrontier
         /\ graph'.nodes = graph.nodes
         /\ graph'.edges = graph.edges \cup
                {e \in AllEdges(graph.nodes) :
                   \E a \in LastFrontier : \E r \in rel'[a] : e = {a, r}}]_vars

\* C17's case: grow returned after a round, and the pass added an edge from
\* a node of the last frontier to a node the graph held
C17_Witness ==
    /\ GrowReturned
    /\ rounds >= 1
    /\ \E a \in new_artists : \E r \in rel[a] :
           /\ {a, r} \in graph.edges
           /\ a \notin rel[r]

--------------------------------------------------------------------------
\* Properties of paths_subgraph's cutoff, checked under SpecOps

\* paths_subgraph returned, called without max_len on three seeds or more
DefaultModeManyPairs ==
    PathsReturned /\ max_len = None /\ Cardinality(seeds) >= 3

\* The simple paths between a pair in the graph handed in with at most
\* cutoff nodes
PathsWithin(pair, cutoff) ==
    {p \in AllSimplePaths(input, pair[1], pair[2]) : Len(p) <= cutoff}

\* C18 as stated: with max_len omitted and three seeds or more, the first
\* path of the pair processed first fixes the cutoff, and that cutoff bounds
\* the paths collected for the pairs after it. Whichever pair comes first.
C18_FirstPairFixesCutoff ==
    DefaultModeManyPairs =>
        \E first \in DOMAIN paths : \A pair \in DOMAIN paths :
            Range(paths[pair]) = PathsWithin(pair, Len(paths[first][1]))

\* C18, amended: with max_len omitted and three seeds or more, every pair
\* has a cutoff of its own, fixed by the first path enumerated for that
\* pair: the pair's entry holds the simple paths between the pair that are
\* no longer than its own first path, whatever the cutoff of any other pair.
C18_EachPairFixesItsCutoff ==
    DefaultModeManyPairs =>
        \A pair \in DOMAIN paths :
            /\ paths[pair] # << >>
            /\ Range(paths[pair]) = PathsWithin(pair, Len(paths[pair][1]))

\* C18's case: two pairs with different cutoffs, the pair with the smaller
\* one joined by a path that the larger one would let in
C18_Witness ==
    /\ DefaultModeManyPairs
    /\ \E pair, other \in DOMAIN paths :
          /\ Len(paths[pair][1]) < Len(paths[other][1])
          /\ \E p \in PathsWithin(pair, Len(paths[other][1])) :
                 Len(p) > Len(paths[pair][1])

--------------------------------------------------------------------------
\* Properties of grow's queries, checked under SpecGrow

\* The artists Artist.related() was called on: the frontiers gone through
Queried == {a \in Entity : queries[a] > 0}

\* C19: in one call of grow, a frontier holds no node the graph held before
\* its round and no node of an earlier frontier, so Artist.related() is
\* called at most once per artist, loop and finishing pass together, and
\* never on a node of the base graph that is not a seed.
C19_EachArtistQueriedOnce ==
    /\ rounds >= 1 => new_artists \cap expand_call.before.nodes = {}
    /\ pc = "grow" => new_artists \cap Queried = {}
    /\ \A a \in Entity : queries[a] <= 1
    /\ \A a \in given.nodes \ seeds : queries[a] = 0

\* C19's case: grow returned after a round on a base graph with a node that
\* is not a seed; the seeds and a later frontier were queried
C19_Witness ==
    /\ GrowReturned
    /\ rounds >= 1
    /\ given.nodes \ seeds # {}
    /\ seeds \subseteq Queried
    /\ new_artists # {} /\ new_artists \subseteq Queried

--------------------------------------------------------------------------
\* Properties of trim's effect on paths, checked under SpecOps

\* C20: trim(graph, keepers=K) keeps every simple path between two nodes of
\* K: the graph it returns has the same simple paths between them as the
\* graph handed in, node for node, hence the same shortest ones.
C20_TrimKeepsPathsBetweenKeepers ==
    TrimReturned =>
        \A s, t \in keepers \cap input.nodes :
            s # t => AllSimplePaths(graph, s, t) = AllSimplePaths(input, s, t)

\* C20's case: trim removed nodes, and two keepers are joined by two paths,
\* one through a node that is not a keeper
C20_Witness ==
    /\ TrimReturned /\ graph.nodes # input.nodes /\ graph.edges # {}
    /\ \E s, t \in keepers \cap input.nodes :
          /\ s # t
          /\ Cardinality(AllSimplePaths(input, s, t)) >= 2
          /\ \E p \in AllSimplePaths(input, s, t) : Range(p) \ keepers # {}

==========================================================================
